---- MODULE Spec2Model ----
(***************************************************************************)
(* A model of the YCCE-AI ingestion pipeline: the sync coordinator        *)
(* (main.py), the change detector (processor/deduplicator.py), the        *)
(* storage client (database/supabase_client.py) and the discovery engine  *)
(* (crawler/spider.py).                                                    *)
(***************************************************************************)
EXTENDS Integers, Sequences, FiniteSets, TLC

(***************************************************************************)
(* Bounds of the model.                                                    *)
(***************************************************************************)
\* URLs the pipeline can discover are 1..NumUrls (ordered, as strings are).
NumUrls == 2
\* Distinct chunk texts.
NumTexts == 2
\* Most chunks the splitter returns for one document.
MaxChunks == 2
\* Runs of run_pipeline executed one after another.
MaxRuns == 2

\* supabase_client.py line 75, scaled down from 100 so that one URL's rows
\* span more than one insert batch.
BATCH_SIZE == 1

Urls == 1..NumUrls
Texts == 1..NumTexts

SeqsUpTo(S, n) == UNION {[1..k -> S] : k \in 0..n}

\* The orders in which a Python set S can be iterated.
OrderingsOf(S) ==
  {s \in [1..Cardinality(S) -> S] : \A i, j \in 1..Cardinality(S) : i # j => s[i] # s[j]}

Range(s) == {s[i] : i \in DOMAIN s}

Min(a, b) == IF a < b THEN a ELSE b

\* dict.get(k, default)
DictGet(d, k, default) == IF k \in DOMAIN d THEN d[k] ELSE default

(***************************************************************************)
(* The state of the sync coordinator and of the remote table.              *)
(***************************************************************************)
VARIABLES
  table,            \* the rows of the knowledge table
  pc,               \* where run_pipeline is: idle, delete, embed, upsert, done
  outcome,          \* how the run ended: none, running, ok, aborted
  run,              \* number of runs started; the clock behind updated_at
  page_urls,        \* crawl()'s page set, in iteration order
  pdf_urls,         \* crawl()'s document set, in iteration order
  documents,        \* the extracted documents
  existing_hashes,  \* url -> set of content_hash read at line 83
  changed_urls,
  new_urls,
  chunks_to_upload,
  del_todo,         \* URLs the loop at line 102 has still to visit
  all_embeddings,
  groups,           \* the groupby groups of the sorted (chunk, embedding) pairs
  g,                \* index of the group being inserted
  b,                \* offset of the next batch within upsert_chunks
  log,              \* the storage and embedding calls issued by the current run
  table0,           \* the table as the current run found it
  repeat,           \* the run follows a successful run with the same inputs
  config,           \* which required settings the process found set
  recovering        \* the URLs that the aborted run this run repeats left unfinished

pvars == <<table, pc, outcome, run, page_urls, pdf_urls, documents,
           existing_hashes, changed_urls, new_urls, chunks_to_upload, del_todo,
           all_embeddings, groups, g, b, log, table0, repeat, config,
           recovering>>

\* find_changed_urls called on its own: its arguments and its result.
VARIABLES
  fc_pc,            \* call, done
  fc_new_chunks,
  fc_existing,
  fc_result

dvars == <<fc_pc, fc_new_chunks, fc_existing, fc_result>>

\* _load_sitemap: the <url> elements of the file and the loop over them.
VARIABLES
  sm_pc,            \* loop, done
  sm_entries,       \* the <url> elements, in document order
  sm_i,             \* elements consumed so far
  sm_page_urls,
  sm_pdf_urls

svars == <<sm_pc, sm_entries, sm_i, sm_page_urls, sm_pdf_urls>>

\* _bfs_crawl
VARIABLES
  bfs_pc,           \* loop, done
  queue,
  visited,
  bfs_page_urls,
  bfs_pdf_urls,
  fetched,          \* the locations requested at line 142
  last_io           \* the crawl's latest fetch or sleep: none, fetch, sleep

bvars == <<bfs_pc, queue, visited, bfs_page_urls, bfs_pdf_urls, fetched, last_io>>

\* _call_embed: one call, attempt by attempt.
VARIABLES
  ce_pc,            \* try, done
  ce_text,
  ce_attempt,       \* the loop variable of line 22
  ce_log,           \* the requests issued and the waits slept, in order
  ce_result         \* none, or what the call returned or raised

evars == <<ce_pc, ce_text, ce_attempt, ce_log, ce_result>>

\* chunk_document: one call.
VARIABLES
  cd_pc,            \* call, done
  cd_document,
  cd_chunks

cvars == <<cd_pc, cd_document, cd_chunks>>

vars == <<pvars, dvars, svars, bvars, evars, cvars>>

(***************************************************************************)
(* processor/deduplicator.py                                               *)
(***************************************************************************)
\* hashlib.sha256 is injective for every practical purpose.
compute_hash(text) == <<"sha256", text>>

compute_hashes_for_chunks(chunks) ==
  [i \in DOMAIN chunks |->
     [url |-> chunks[i].url, title |-> chunks[i].title, type |-> chunks[i].type,
      chunk_index |-> chunks[i].chunk_index, content |-> chunks[i].content,
      content_hash |-> compute_hash(chunks[i].content)]]

\* new_by_url.setdefault(url, set()).add(chunk["content_hash"]), chunk by chunk
RECURSIVE GroupHashes(_, _)
GroupHashes(chunks, acc) ==
  IF chunks = <<>> THEN acc
  ELSE LET c == Head(chunks)
           acc2 == IF c.url \in DOMAIN acc
                   THEN [acc EXCEPT ![c.url] = @ \cup {c.content_hash}]
                   ELSE [u \in DOMAIN acc \cup {c.url} |->
                           IF u = c.url THEN {c.content_hash} ELSE acc[u]]
       IN GroupHashes(Tail(chunks), acc2)

EmptyDict == [u \in {} |-> {}]

\* A comparison that only looks for hashes the table does not hold.
HashSetsGrow(new_hash_set, old_hash_set) == new_hash_set \ old_hash_set # {}

\* A comparison that reports every URL as changed.
HashSetsAlwaysDiffer(new_hash_set, old_hash_set) == TRUE

\* new_hash_set != old_hash_set
HashSetsDiffer(new_hash_set, old_hash_set) == new_hash_set # old_hash_set

\* A detector that also reports the stored URLs the run has no chunk for.
find_changed_or_gone_urls(new_chunks, existing) ==
  LET new_by_url == GroupHashes(new_chunks, EmptyDict)
  IN {u \in DOMAIN new_by_url \cup DOMAIN existing :
        HashSetsDiffer(DictGet(new_by_url, u, {}), DictGet(existing, u, {}))}

find_changed_urls(new_chunks, existing) ==
  LET new_by_url == GroupHashes(new_chunks, EmptyDict)
  IN {u \in DOMAIN new_by_url :
        HashSetsDiffer(new_by_url[u], DictGet(existing, u, {}))}

(***************************************************************************)
(* processor/chunker.py and processor/embedder.py                          *)
(***************************************************************************)
\* The library splitter is an external collaborator: a document's content is
\* modelled by the pieces the splitter returns for it.
split_text(content) == content

\* A chunker that numbers the chunks from 1.
chunk_document_from_one(document) ==
  LET texts == split_text(document.content)
  IN [i \in 1..Len(texts) |->
        [url |-> document.url, title |-> document.title, type |-> document.type,
         chunk_index |-> i, content |-> texts[i]]]

chunk_document(document) ==
  LET texts == split_text(document.content)
  IN [i \in 1..Len(texts) |->
        [url |-> document.url, title |-> document.title, type |-> document.type,
         chunk_index |-> i - 1, content |-> texts[i]]]

\* The edge function's vector is a function of the text alone.
Embedding(text) == <<"gte-small", text>>

embed_texts(texts) == [i \in DOMAIN texts |-> Embedding(texts[i])]

(***************************************************************************)
(* database/supabase_client.py                                             *)
(***************************************************************************)
\* A read that keeps one hash per URL (assignment instead of set.add).
get_existing_hashes_last(tbl) ==
  [u \in {r.url : r \in tbl} |->
     {CHOOSE h \in {r.content_hash : r \in {x \in tbl : x.url = u}} : TRUE}]

get_existing_hashes(tbl) ==
  [u \in {r.url : r \in tbl} |-> {r.content_hash : r \in {x \in tbl : x.url = u}}]

\* A delete that removes nothing.
delete_nothing(tbl, url) == tbl

\* A delete that removes only the first row of the URL.
delete_first_chunk(tbl, url) == {r \in tbl : ~(r.url = url /\ r.chunk_index = 0)}

delete_chunks_for_url(tbl, url) == {r \in tbl : r.url # url}

\* The rows upsert_chunks builds from zip(chunks, embeddings).
UpsertRows(chunks, embeddings, now) ==
  [i \in 1..Min(Len(chunks), Len(embeddings)) |->
     [url |-> chunks[i].url, chunk_index |-> chunks[i].chunk_index,
      content |-> chunks[i].content, content_hash |-> chunks[i].content_hash,
      embedding |-> embeddings[i],
      metadata |-> [title |-> chunks[i].title, type |-> chunks[i].type,
                    updated_at |-> now]]]

\* rows[i : i + BATCH_SIZE], i counted from 0
Batch(rows, i) == SubSeq(rows, i + 1, Min(i + BATCH_SIZE, Len(rows)))

(***************************************************************************)
(* config.py                                                               *)
(***************************************************************************)
Required == {"SUPABASE_URL", "SUPABASE_SERVICE_KEY", "SUPABASE_ANON_KEY"}

\* Which of the required settings os.getenv returned a non-empty value for.
Configs == [Required -> BOOLEAN]

\* Before the process has loaded its environment.
Unset == [k \in Required |-> FALSE]

\* A validation that does not look at the anon key.
MissingButAnonKey(cfg) == {k \in Required \ {"SUPABASE_ANON_KEY"} : ~cfg[k]}

\* lines 34-40: the names validate() collects
Missing(cfg) == {k \in Required : ~cfg[k]}

(***************************************************************************)
(* main.py: run_pipeline                                                   *)
(***************************************************************************)
\* extract_text_from_html / extract_text_from_pdf: None (no document) or a
\* document; content <<>> stands for a failed fetch or too little text.
Title(url) == <<"title", url>>

Extract(url, type, content) ==
  IF content = <<>> THEN <<>>
  ELSE <<[url |-> url, title |-> Title(url), content |-> content, type |-> type]>>

\* lines 55-63: documents.append(doc) for every url whose extraction succeeded
RECURSIVE ExtractAll(_, _, _)
ExtractAll(urls, type, upstream) ==
  IF urls = <<>> THEN <<>>
  ELSE Extract(Head(urls), type, upstream[Head(urls)])
         \o ExtractAll(Tail(urls), type, upstream)

\* lines 73-76: all_chunks.extend(chunk_document(doc))
RECURSIVE ChunkAll(_)
ChunkAll(docs) ==
  IF docs = <<>> THEN <<>> ELSE chunk_document(Head(docs)) \o ChunkAll(Tail(docs))

all_chunks == compute_hashes_for_chunks(ChunkAll(documents))

\* line 87
NewUrls(chunks, existing) == {chunks[i].url : i \in DOMAIN chunks} \ DOMAIN existing

\* line 88
urls_to_process == changed_urls \cup new_urls

\* A filter that keeps every chunk.
ChunksToUploadAll(chunks, to_process) == chunks

\* line 97
ChunksToUpload(chunks, to_process) == SelectSeq(chunks, LAMBDA c : c.url \in to_process)

\* A purge loop that visits no URL.
PurgeNothing(changed) == {}

\* line 102: the URLs whose rows are purged
UrlsToPurge(changed) == changed

\* line 122: list.sort(key=url) is a stable sort
RECURSIVE InsertByUrl(_, _)
InsertByUrl(x, s) ==
  IF s = <<>> THEN <<x>>
  ELSE IF x[1].url <= Head(s)[1].url THEN <<x>> \o s
       ELSE <<Head(s)>> \o InsertByUrl(x, Tail(s))

RECURSIVE SortByUrl(_)
SortByUrl(s) == IF s = <<>> THEN <<>> ELSE InsertByUrl(Head(s), SortByUrl(Tail(s)))

\* A pairing that takes the embeddings from the end of the list.
ZipReversed(xs, ys) ==
  [i \in 1..Min(Len(xs), Len(ys)) |-> <<xs[i], ys[Len(ys) + 1 - i]>>]

\* line 121
Zip(xs, ys) == [i \in 1..Min(Len(xs), Len(ys)) |-> <<xs[i], ys[i]>>]

\* length of the longest prefix of s whose url is k
RECURSIVE RunLength(_, _)
RunLength(s, k) ==
  IF s = <<>> \/ Head(s)[1].url # k THEN 0 ELSE 1 + RunLength(Tail(s), k)

\* line 124: itertools.groupby puts consecutive equal keys into one group
RECURSIVE GroupBy(_)
GroupBy(s) ==
  IF s = <<>> THEN <<>>
  ELSE LET n == RunLength(s, Head(s)[1].url)
       IN <<SubSeq(s, 1, n)>> \o GroupBy(SubSeq(s, n + 1, Len(s)))

grp_chunks(group) == [i \in DOMAIN group |-> group[i][1]]
grp_embs(group) == [i \in DOMAIN group |-> group[i][2]]

Event(op, url) == [op |-> op, url |-> url]

\* lines 49-63: crawl(), then one extraction request per discovered URL
Discovery(po, do) ==
  <<Event("crawl", 0)>> \o [i \in 1..Len(po \o do) |-> Event("extract", (po \o do)[i])]

\* What crawl() and the extractors can hand to one run.
CrawlResults ==
  {<<po, do>> : po \in UNION {OrderingsOf(P) : P \in SUBSET Urls},
                do \in UNION {OrderingsOf(D) : D \in SUBSET Urls}}

Contents == SeqsUpTo(Texts, MaxChunks)

PipelineInit ==
  /\ table = {}
  /\ pc = "idle"
  /\ outcome = "none"
  /\ run = 0
  /\ page_urls = <<>>
  /\ pdf_urls = <<>>
  /\ documents = <<>>
  /\ existing_hashes = EmptyDict
  /\ changed_urls = {}
  /\ new_urls = {}
  /\ chunks_to_upload = <<>>
  /\ del_todo = {}
  /\ all_embeddings = <<>>
  /\ groups = <<>>
  /\ g = 1
  /\ b = 0
  /\ log = <<>>
  /\ table0 = {}
  /\ repeat = FALSE
  /\ config = Unset
  /\ recovering = {}

\* Lines 37-98: crawl, extract, chunk, fingerprint, detect.
Begin(po, do, upstream, again) ==
  LET docs == ExtractAll(po, "html", upstream) \o ExtractAll(do, "pdf", upstream)
      chunks == compute_hashes_for_chunks(ChunkAll(docs))
      eh == get_existing_hashes(table)
      ch == find_changed_urls(chunks, eh)
      nu == NewUrls(chunks, eh)
      purge == UrlsToPurge(ch)
  IN /\ run < MaxRuns
     /\ run' = run + 1
     /\ repeat' = again
     /\ page_urls' = po
     /\ pdf_urls' = do
     /\ documents' = docs
     /\ table0' = table
     /\ all_embeddings' = <<>>
     /\ groups' = <<>>
     /\ g' = 1
     /\ b' = 0
     /\ UNCHANGED table
     /\ IF docs = <<>>
        THEN \* line 67: nothing extracted
             /\ log' = Discovery(po, do)
             /\ pc' = "done"
             /\ outcome' = "ok"
             /\ existing_hashes' = EmptyDict
             /\ changed_urls' = {}
             /\ new_urls' = {}
             /\ chunks_to_upload' = <<>>
             /\ del_todo' = {}
        ELSE /\ log' = Append(Discovery(po, do), Event("select", 0))
             /\ existing_hashes' = eh
             /\ changed_urls' = ch
             /\ new_urls' = nu
             /\ IF ch \cup nu = {}
                THEN \* line 90: nothing to do
                     /\ pc' = "done"
                     /\ outcome' = "ok"
                     /\ chunks_to_upload' = <<>>
                     /\ del_todo' = {}
                ELSE /\ outcome' = "running"
                     /\ chunks_to_upload' = ChunksToUpload(chunks, ch \cup nu)
                     /\ del_todo' = purge
                     /\ pc' = IF purge = {} THEN "embed" ELSE "delete"

\* Line 45: validate() raises, and run_pipeline with it.
ValidateFail ==
  /\ pc = "idle"
  /\ run < MaxRuns
  /\ \E cfg \in Configs :
       /\ Missing(cfg) # {}
       /\ config' = cfg
  /\ run' = run + 1
  /\ pc' = "done"
  /\ outcome' = "aborted"
  /\ table0' = table
  /\ UNCHANGED <<table, page_urls, pdf_urls, documents, existing_hashes, changed_urls,
                 new_urls, chunks_to_upload, del_todo, all_embeddings, groups, g, b,
                 log, repeat, recovering, dvars, svars, bvars, evars, cvars>>

\* A run on whatever the site holds.
StartRun ==
  /\ pc = "idle"
  /\ \E cfg \in Configs :
       /\ Missing(cfg) = {}
       /\ config' = cfg
  /\ \E cr \in CrawlResults :
       /\ Range(cr[1]) \cap Range(cr[2]) = {}
       /\ \E upstream \in [Urls -> Contents] :
            /\ \A u \in Urls \ (Range(cr[1]) \cup Range(cr[2])) : upstream[u] = <<>>
            /\ Begin(cr[1], cr[2], upstream, FALSE)
  /\ recovering' = {}
  /\ UNCHANGED <<dvars, svars, bvars, evars, cvars>>

\* What the extractors returned to the run that has just ended.
LastUpstream ==
  [u \in Urls |->
     IF \E i \in DOMAIN documents : documents[i].url = u
     THEN (CHOOSE d \in Range(documents) : d.url = u).content
     ELSE <<>>]

\* The next run, right after a run that completed, with the site unchanged:
\* the same URLs are discovered (in any iteration order) and every
\* extraction returns what it returned before.
RunAgain ==
  /\ pc = "done"
  /\ outcome = "ok"
  /\ \E po \in OrderingsOf(Range(page_urls)), do \in OrderingsOf(Range(pdf_urls)) :
       Begin(po, do, LastUpstream, TRUE)
  /\ recovering' = {}
  /\ UNCHANGED <<config, dvars, svars, bvars, evars, cvars>>

\* The URLs whose rows the run has deleted and not yet inserted in full.
Unfinished ==
  {u \in {log[i].url : i \in {j \in DOMAIN log : log[j].op = "delete"}} :
     Cardinality({r \in table : r.url = u})
       < Cardinality({i \in DOMAIN chunks_to_upload : chunks_to_upload[i].url = u})}

\* The next run, right after a run that aborted in its write phases, with
\* the site unchanged: the same URLs are discovered (in any iteration order)
\* and every extraction returns what it returned before.
RunAfterAbort ==
  /\ pc = "done"
  /\ outcome = "aborted"
  /\ Missing(config) = {}
  /\ \E po \in OrderingsOf(Range(page_urls)), do \in OrderingsOf(Range(pdf_urls)) :
       Begin(po, do, LastUpstream, FALSE)
  /\ recovering' = Unfinished
  /\ UNCHANGED <<config, dvars, svars, bvars, evars, cvars>>

\* The process ends: only the table outlives it.
Exit ==
  /\ pc = "done"
  /\ pc' = "idle"
  /\ page_urls' = <<>>
  /\ pdf_urls' = <<>>
  /\ documents' = <<>>
  /\ existing_hashes' = EmptyDict
  /\ changed_urls' = {}
  /\ new_urls' = {}
  /\ chunks_to_upload' = <<>>
  /\ del_todo' = {}
  /\ all_embeddings' = <<>>
  /\ groups' = <<>>
  /\ g' = 1
  /\ b' = 0
  /\ log' = <<>>
  /\ table0' = {}
  /\ repeat' = FALSE
  /\ config' = Unset
  /\ recovering' = {}
  /\ outcome' = "none"
  /\ UNCHANGED <<table, run, dvars, svars, bvars, evars, cvars>>

runvars == <<run, page_urls, pdf_urls, documents, existing_hashes, changed_urls,
             new_urls, chunks_to_upload, table0, repeat, config, recovering>>

\* Lines 102-103: one iteration of the purge loop.
DeleteStep ==
  /\ pc = "delete"
  /\ \E url \in del_todo :
       /\ table' = delete_chunks_for_url(table, url)
       /\ log' = Append(log, Event("delete", url))
       /\ del_todo' = del_todo \ {url}
       /\ pc' = IF del_todo' = {} THEN "embed" ELSE "delete"
  /\ UNCHANGED <<runvars, outcome, all_embeddings, groups, g, b, dvars, svars, bvars, evars, cvars>>

\* The storage call of line 103 raises: the run ends there.
DeleteFail ==
  /\ pc = "delete"
  /\ pc' = "done"
  /\ outcome' = "aborted"
  /\ UNCHANGED <<runvars, table, del_todo, all_embeddings, groups, g, b, log, dvars, svars, bvars, evars, cvars>>

\* Lines 110-112: one iteration of the embedding loop; after the last one,
\* lines 121-124 pair, sort and group.
EmbedStep ==
  /\ pc = "embed"
  /\ LET i == Len(all_embeddings) + 1
         emb == embed_texts(<<chunks_to_upload[i].content>>)
         embs == all_embeddings \o emb
     IN /\ all_embeddings' = embs
        /\ log' = Append(log, Event("embed", chunks_to_upload[i].url))
        /\ IF i = Len(chunks_to_upload)
           THEN /\ groups' = GroupBy(SortByUrl(Zip(chunks_to_upload, embs)))
                /\ pc' = "upsert"
           ELSE UNCHANGED <<groups, pc>>
  /\ UNCHANGED <<runvars, outcome, table, del_todo, g, b, dvars, svars, bvars, evars, cvars>>

\* A crash in embed_texts that is swallowed: the chunk is left out and the
\* run goes on with the embeddings it has.
EmbedFailSkips ==
  /\ pc = "embed"
  /\ log' = Append(log, Event("embed_raised", chunks_to_upload[Len(all_embeddings) + 1].url))
  /\ groups' = GroupBy(SortByUrl(Zip(chunks_to_upload, all_embeddings)))
  /\ IF all_embeddings = <<>>
     THEN pc' = "done" /\ outcome' = "ok"
     ELSE pc' = "upsert" /\ UNCHANGED outcome
  /\ UNCHANGED <<runvars, table, del_todo, all_embeddings, g, b, dvars, svars, bvars, evars, cvars>>

\* Line 111: _call_embed raises, embed_texts and run_pipeline with it: the
\* run ends there.
EmbedFail ==
  /\ pc = "embed"
  /\ pc' = "done"
  /\ outcome' = "aborted"
  /\ log' = Append(log, Event("embed_raised", chunks_to_upload[Len(all_embeddings) + 1].url))
  /\ UNCHANGED <<runvars, table, del_todo, all_embeddings, groups, g, b, dvars, svars, bvars, evars, cvars>>

\* Lines 74-77 of supabase_client.py: one insert of upsert_chunks, called at
\* line 128 of main.py for the group g.
InsertBatch ==
  /\ pc = "upsert"
  /\ LET group == groups[g]
         rows == UpsertRows(grp_chunks(group), grp_embs(group), run)
         last == b + BATCH_SIZE >= Len(rows)
     IN /\ table' = table \cup Range(Batch(rows, b))
        /\ log' = Append(log, Event("insert", group[1][1].url))
        /\ b' = IF last THEN 0 ELSE b + BATCH_SIZE
        /\ g' = IF last THEN g + 1 ELSE g
        /\ IF last /\ g = Len(groups)
           THEN pc' = "done" /\ outcome' = "ok"
           ELSE UNCHANGED <<pc, outcome>>
  /\ UNCHANGED <<runvars, del_todo, all_embeddings, groups, dvars, svars, bvars, evars, cvars>>

\* The insert raises: the run ends there, earlier batches stay committed.
InsertFail ==
  /\ pc = "upsert"
  /\ pc' = "done"
  /\ outcome' = "aborted"
  /\ UNCHANGED <<runvars, table, del_todo, all_embeddings, groups, g, b, log, dvars, svars, bvars, evars, cvars>>

(***************************************************************************)
(* find_changed_urls as a function of arbitrary arguments.                 *)
(***************************************************************************)
\* Longest new_chunks list tried.
MaxNew == 3

Hashes == {compute_hash(t) : t \in Texts}

\* The fields of a chunk that find_changed_urls reads.
DetectChunks == [url : Urls, content_hash : Hashes]

\* Every dict url -> set of hashes, a key with the empty set included.
DetectDicts == UNION {[D -> SUBSET Hashes] : D \in SUBSET Urls}

DetectIdle ==
  /\ fc_pc = "idle"
  /\ fc_new_chunks = <<>>
  /\ fc_existing = EmptyDict
  /\ fc_result = {}

DetectCall ==
  /\ fc_pc = "call"
  /\ fc_result' = find_changed_urls(fc_new_chunks, fc_existing)
  /\ fc_pc' = "done"
  /\ UNCHANGED <<fc_new_chunks, fc_existing, pvars, svars, bvars, evars, cvars>>

(***************************************************************************)
(* config.py: the caps, scaled down from 500 and 200.                      *)
(***************************************************************************)
MAX_PAGES == 2
MAX_PDFS == 1

(***************************************************************************)
(* Strings are sequences of characters.                                    *)
(***************************************************************************)
LowerChar(c) ==
  CASE c = "W" -> "w" [] c = "E" -> "e" [] c = "X" -> "x"
    [] c = "P" -> "p" [] c = "D" -> "d" [] c = "F" -> "f"
    [] c = "J" -> "j" [] c = "G" -> "g"
    [] OTHER -> c

\* str.lower()
Lower(str) == [i \in DOMAIN str |-> LowerChar(str[i])]

\* str.replace(old, new): every non-overlapping occurrence, left to right
RECURSIVE Replace(_, _, _)
Replace(str, old, new) ==
  IF Len(str) < Len(old) THEN str
  ELSE IF SubSeq(str, 1, Len(old)) = old
       THEN new \o Replace(SubSeq(str, Len(old) + 1, Len(str)), old, new)
       ELSE <<Head(str)>> \o Replace(Tail(str), old, new)

\* str.startswith(prefix)
StartsWith(str, prefix) ==
  Len(str) >= Len(prefix) /\ SubSeq(str, 1, Len(prefix)) = prefix

WwwDot == <<"w", "w", "w", ".">>
DotPdf == <<".", "p", "d", "f">>
DotPDF == <<".", "P", "D", "F">>
DotJPG == <<".", "J", "P", "G">>
DotDoc == <<".", "d", "o", "c">>
NoExt == <<>>

(***************************************************************************)
(* crawler/spider.py: _load_sitemap                                        *)
(***************************************************************************)
\* Longest sitemap tried.
MaxEntries == 4

\* A <url> element: whether it has a <loc> with text, whether the text is
\* padded with white space, and the location stem + ext [+ "?query"].
SmEntry(text, pad, stem, ext, query) ==
  [text |-> text, pad |-> pad, stem |-> stem, ext |-> ext, query |-> query]

SitemapEntries ==
  { SmEntry(FALSE, FALSE, 0, NoExt, FALSE),
    SmEntry(TRUE, FALSE, 1, NoExt, FALSE),
    SmEntry(TRUE, TRUE, 1, NoExt, FALSE),
    SmEntry(TRUE, FALSE, 2, NoExt, FALSE),
    SmEntry(TRUE, FALSE, 3, NoExt, FALSE),
    SmEntry(TRUE, FALSE, 1, DotPdf, FALSE),
    SmEntry(TRUE, FALSE, 2, DotPDF, FALSE),
    SmEntry(TRUE, FALSE, 1, DotJPG, FALSE),
    SmEntry(TRUE, FALSE, 1, DotPdf, TRUE) }

\* line 39, the extensions the entries above can carry
skip_extensions == {DotDoc, <<".", "j", "p", "g">>}

\* line 46: loc.text.strip()
SmUrl(entry) == [stem |-> entry.stem, ext |-> entry.ext, query |-> entry.query]

\* lines 49-50: os.path.splitext(urlparse(url.lower()).path)[1]
SmExt(url) == Lower(url.ext)

\* line 54: url.lower().endswith(".pdf"), the query being part of the url
SmEndsWithPdf(url) == Lower(url.ext) = DotPdf /\ ~url.query

\* A cap test that admits one entry too many.
BelowCapOrAt(n, cap) == n <= cap

\* lines 55 and 58: len(urls) < cap
BelowCap(n, cap) == n < cap

SitemapIdle ==
  /\ sm_pc = "idle"
  /\ sm_entries = <<>>
  /\ sm_i = 0
  /\ sm_page_urls = {}
  /\ sm_pdf_urls = {}

\* lines 41-52: an element without location text, or of a skipped extension
SmSkip ==
  /\ sm_pc = "loop"
  /\ sm_i < Len(sm_entries)
  /\ LET entry == sm_entries[sm_i + 1]
     IN \/ ~entry.text
        \/ SmExt(SmUrl(entry)) \in skip_extensions
  /\ sm_i' = sm_i + 1
  /\ UNCHANGED <<sm_pc, sm_entries, sm_page_urls, sm_pdf_urls, pvars, dvars, bvars, evars, cvars>>

\* lines 54-56
SmPdf ==
  /\ sm_pc = "loop"
  /\ sm_i < Len(sm_entries)
  /\ LET entry == sm_entries[sm_i + 1]
         url == SmUrl(entry)
     IN /\ entry.text
        /\ SmExt(url) \notin skip_extensions
        /\ SmEndsWithPdf(url)
        /\ sm_pdf_urls' = IF BelowCap(Cardinality(sm_pdf_urls), MAX_PDFS)
                          THEN sm_pdf_urls \cup {url} ELSE sm_pdf_urls
  /\ sm_i' = sm_i + 1
  /\ UNCHANGED <<sm_pc, sm_entries, sm_page_urls, pvars, dvars, bvars, evars, cvars>>

\* lines 57-59
SmPage ==
  /\ sm_pc = "loop"
  /\ sm_i < Len(sm_entries)
  /\ LET entry == sm_entries[sm_i + 1]
         url == SmUrl(entry)
     IN /\ entry.text
        /\ SmExt(url) \notin skip_extensions
        /\ ~SmEndsWithPdf(url)
        /\ sm_page_urls' = IF BelowCap(Cardinality(sm_page_urls), MAX_PAGES)
                           THEN sm_page_urls \cup {url} ELSE sm_page_urls
  /\ sm_i' = sm_i + 1
  /\ UNCHANGED <<sm_pc, sm_entries, sm_pdf_urls, pvars, dvars, bvars, evars, cvars>>

\* line 61
SmReturn ==
  /\ sm_pc = "loop"
  /\ sm_i = Len(sm_entries)
  /\ sm_pc' = "done"
  /\ UNCHANGED <<sm_entries, sm_i, sm_page_urls, sm_pdf_urls, pvars, dvars, bvars, evars, cvars>>

(***************************************************************************)
(* crawler/spider.py: _bfs_crawl                                           *)
(***************************************************************************)
\* Most links taken from one fetched page.
MaxLinks == 2

Http == <<"h", "t", "t", "p">>
Ftp == <<"f", "t", "p">>
Mailto == <<"m", "a", "i", "l", "t", "o">>
NoScheme == <<>>
NoHost == <<>>

HostUpperEx == <<"E", "X">>
HostWwwEx == <<"w", "w", "w", ".", "e", "x">>
HostEwwwX == <<"e", "w", "w", "w", ".", "x">>
HostOx == <<"o", "x">>

\* A location or an href: scheme://host/path+ext [/] [#fragment]; an href
\* without scheme and host is relative; path 0 is the empty path.
Loc(scheme, host, path, ext, slash, frag) ==
  [scheme |-> scheme, host |-> host, path |-> path, ext |-> ext,
   slash |-> slash, frag |-> frag]

\* config.TARGET_DOMAIN has the www. label, like the default.
Seed == Loc(Http, HostWwwEx, 0, NoExt, FALSE, FALSE)

\* The hrefs a fetched page can carry: the seed, a page on a foreign host
\* that holds "www." inside a label, a page on another foreign host, two
\* documents on the bare host in upper case, a location of another scheme,
\* a mail link, a pure fragment and a relative link.
Hrefs ==
  { Seed,
    Loc(Http, HostEwwwX, 0, NoExt, FALSE, FALSE),
    Loc(Http, HostOx, 0, NoExt, FALSE, FALSE),
    Loc(Http, HostUpperEx, 3, DotPdf, FALSE, TRUE),
    Loc(Http, HostUpperEx, 4, DotPDF, FALSE, FALSE),
    Loc(Ftp, HostUpperEx, 0, NoExt, FALSE, FALSE),
    Loc(Mailto, NoHost, 0, NoExt, FALSE, FALSE),
    Loc(NoScheme, NoHost, 0, NoExt, FALSE, TRUE),
    Loc(NoScheme, NoHost, 1, NoExt, TRUE, TRUE) }

\* lines 19-21: netloc.lower().replace("www.", "")
_get_base_domain(netloc) == Replace(Lower(netloc), WwwDot, <<>>)

\* urlparse(url).netloc
Netloc(url) == url.host

\* line 88
base_domain == _get_base_domain(Netloc(Seed))

\* line 114: url.split("#")[0].rstrip("/")
Normalize(url) == [url EXCEPT !.frag = FALSE, !.slash = FALSE]

\* line 117: url.startswith("http"), the url starting with its scheme and ":"
StartsWithHttp(url) == StartsWith(url.scheme \o <<":">>, Http)

\* A visited test that never finds the location.
NeverVisited(url, seen) == FALSE

\* line 120
AlreadyVisited(url, seen) == url \in seen

\* line 127
InDomain(url) == _get_base_domain(Netloc(url)) = base_domain

\* line 131: url.lower().endswith(".pdf") on the normalised url
EndsWithPdf(url) == Lower(url.ext) = DotPdf

\* line 160: javascript:, mailto:, tel: and pure-fragment links
SkippedHref(href) ==
  \/ StartsWith(href.scheme \o <<":">>, Mailto \o <<":">>)
  \/ (href.scheme = NoScheme /\ href.host = NoHost /\ href.path = 0
        /\ href.ext = NoExt /\ ~href.slash /\ href.frag)

\* line 163: urljoin(url, href); a relative href takes the page's scheme and
\* host
urljoin(url, href) ==
  IF href.scheme = NoScheme /\ href.host = NoHost
  THEN [href EXCEPT !.scheme = url.scheme, !.host = url.host]
  ELSE href

\* lines 156-168: the links of a page that are appended to the queue
RECURSIVE Enqueued(_, _)
Enqueued(url, links) ==
  IF links = <<>> THEN <<>>
  ELSE LET href == Head(links)
           full_url == urljoin(url, href)
           rest == Enqueued(url, Tail(links))
       IN IF SkippedHref(href) THEN rest
          ELSE IF _get_base_domain(Netloc(full_url)) = base_domain
               THEN <<full_url>> \o rest
               ELSE rest

\* A stop test that is content with one cap.
EitherCapReached ==
  \/ Cardinality(bfs_page_urls) >= MAX_PAGES
  \/ Cardinality(bfs_pdf_urls) >= MAX_PDFS

\* line 107
CapsReached ==
  /\ Cardinality(bfs_page_urls) >= MAX_PAGES
  /\ Cardinality(bfs_pdf_urls) >= MAX_PDFS

BfsIdle ==
  /\ bfs_pc = "idle"
  /\ queue = <<>>
  /\ visited = {}
  /\ bfs_page_urls = {}
  /\ bfs_pdf_urls = {}
  /\ fetched = {}
  /\ last_io = "none"

\* lines 87-93
BfsStart ==
  /\ bfs_pc = "loop"
  /\ queue = <<Seed>>
  /\ visited = {}
  /\ bfs_page_urls = {}
  /\ bfs_pdf_urls = {}
  /\ fetched = {}
  /\ last_io = "none"

\* The loop runs another iteration: lines 106-111.
Iterating == bfs_pc = "loop" /\ queue # <<>> /\ ~CapsReached

\* The location that iteration handles.
Current == Normalize(Head(queue))

\* The iteration reaches the fetch of line 142.
Fetching ==
  /\ Iterating
  /\ StartsWithHttp(Current)
  /\ ~AlreadyVisited(Current, visited)
  /\ InDomain(Current)
  /\ ~EndsWithPdf(Current)
  /\ Cardinality(bfs_page_urls) < MAX_PAGES

\* line 106: the frontier is empty
BfsFrontierEmpty ==
  /\ bfs_pc = "loop"
  /\ queue = <<>>
  /\ bfs_pc' = "done"
  /\ UNCHANGED <<queue, visited, bfs_page_urls, bfs_pdf_urls, fetched, last_io, pvars, dvars, svars, evars, cvars>>

\* lines 107-109: both caps reached
BfsCapsReached ==
  /\ bfs_pc = "loop"
  /\ queue # <<>>
  /\ CapsReached
  /\ bfs_pc' = "done"
  /\ UNCHANGED <<queue, visited, bfs_page_urls, bfs_pdf_urls, fetched, last_io, pvars, dvars, svars, evars, cvars>>

\* lines 117-138: the iterations that end in a continue before any fetch and
\* admit nothing
BfsSkip ==
  /\ Iterating
  /\ queue' = Tail(queue)
  /\ IF ~StartsWithHttp(Current) \/ AlreadyVisited(Current, visited)
     THEN UNCHANGED visited
     ELSE /\ visited' = visited \cup {Current}
          /\ IF InDomain(Current)
             THEN /\ ~EndsWithPdf(Current)
                  /\ Cardinality(bfs_page_urls) >= MAX_PAGES
             ELSE TRUE
  /\ UNCHANGED <<bfs_pc, bfs_page_urls, bfs_pdf_urls, fetched, last_io, pvars, dvars, svars, evars, cvars>>

\* lines 131-135: a document location
BfsPdf ==
  /\ Iterating
  /\ StartsWithHttp(Current)
  /\ ~AlreadyVisited(Current, visited)
  /\ InDomain(Current)
  /\ EndsWithPdf(Current)
  /\ queue' = Tail(queue)
  /\ visited' = visited \cup {Current}
  /\ bfs_pdf_urls' = IF Cardinality(bfs_pdf_urls) < MAX_PDFS
                     THEN bfs_pdf_urls \cup {Current} ELSE bfs_pdf_urls
  /\ UNCHANGED <<bfs_pc, bfs_page_urls, fetched, last_io, pvars, dvars, svars, evars, cvars>>

\* lines 141-149: the request raises, the content is not HTML or the status
\* is an error
BfsFetchRejected ==
  /\ Fetching
  /\ queue' = Tail(queue)
  /\ visited' = visited \cup {Current}
  /\ fetched' = fetched \cup {Current}
  /\ last_io' = "fetch"
  /\ UNCHANGED <<bfs_pc, bfs_page_urls, bfs_pdf_urls, pvars, dvars, svars, evars, cvars>>

\* lines 141-171: the page is fetched, admitted, its links queued; sleep
BfsFetchPage ==
  /\ Fetching
  /\ \E links \in SeqsUpTo(Hrefs, MaxLinks) :
       queue' = Tail(queue) \o Enqueued(Current, links)
  /\ visited' = visited \cup {Current}
  /\ bfs_page_urls' = bfs_page_urls \cup {Current}
  /\ fetched' = fetched \cup {Current}
  /\ last_io' = "sleep"
  /\ UNCHANGED <<bfs_pc, bfs_pdf_urls, pvars, dvars, svars, evars, cvars>>

(***************************************************************************)
(* processor/embedder.py: _call_embed                                      *)
(***************************************************************************)
\* line 13: the default of the parameter; no caller passes another value.
retries == 3

\* What requests.post comes to: it raises (status 0), or it returns a
\* response with a status and a body.  The body of a success response holds
\* the embedding, is JSON without that key, or is not JSON.
Statuses == {200, 404, 500, 503, 546}

Response(status, body) == [status |-> status, body |-> body]

NoResponse == Response(0, "none")

Responses ==
  {Response(200, body) : body \in {"embedding", "nokey", "notjson"}}
    \cup {Response(status, "error") : status \in Statuses \ {200}}

\* line 25
Transient(status) == status = 546 \/ status >= 500

\* lines 26 and 34: 2 ** attempt * 2
Wait(attempt) == (2 ^ attempt) * 2

\* line 30: Response.raise_for_status raises HTTPError, a RequestException
RaisesForStatus(status) == 400 <= status /\ status < 600

\* line 33
MoreAttempts(attempt) == attempt < retries - 1

\* A loop that runs one iteration more than range(n).
InRangeOrAt(attempt, n) == attempt <= n

\* line 22: for attempt in range(retries)
InRange(attempt, n) == attempt < n

Post(response) == [ev |-> "post", response |-> response]
Sleep(wait) == [ev |-> "sleep", wait |-> wait]

NoResult == [kind |-> "none", value |-> <<>>]
Returned(value) == [kind |-> "returned", value |-> value]
Raised(exception) == [kind |-> "raised", value |-> exception]

EmbedIdle ==
  /\ ce_pc = "idle"
  /\ ce_text = 0
  /\ ce_attempt = 0
  /\ ce_log = <<>>
  /\ ce_result = NoResult

\* The end of an iteration that does not leave the function: the next
\* iteration if range(retries) has one, line 39 otherwise.
CeContinue ==
  IF InRange(ce_attempt + 1, retries)
  THEN /\ ce_attempt' = ce_attempt + 1
       /\ UNCHANGED <<ce_pc, ce_result>>
  ELSE /\ ce_pc' = "done"
       /\ ce_result' = Raised("RuntimeError")
       /\ UNCHANGED ce_attempt

\* lines 24-29: a transient status; wait and continue
CeTransient ==
  /\ ce_pc = "try"
  /\ \E r \in Responses :
       /\ Transient(r.status)
       /\ ce_log' = ce_log \o <<Post(r), Sleep(Wait(ce_attempt))>>
  /\ CeContinue
  /\ UNCHANGED <<ce_text, pvars, dvars, svars, bvars, cvars>>

\* lines 30-31: a success response that holds the embedding
CeReturn ==
  /\ ce_pc = "try"
  /\ \E r \in Responses :
       /\ ~Transient(r.status)
       /\ ~RaisesForStatus(r.status)
       /\ r.body = "embedding"
       /\ ce_log' = Append(ce_log, Post(r))
  /\ ce_pc' = "done"
  /\ ce_result' = Returned(Embedding(ce_text))
  /\ UNCHANGED <<ce_text, ce_attempt, pvars, dvars, svars, bvars, cvars>>

\* line 31 raises what the except clause does not catch: KeyError for a
\* body without the key, ValueError for a body that is not JSON where the
\* library's decoding error is not a RequestException
CePropagates ==
  /\ ce_pc = "try"
  /\ \E r \in Responses :
       /\ ~Transient(r.status)
       /\ ~RaisesForStatus(r.status)
       /\ r.body \in {"nokey", "notjson"}
       /\ ce_log' = Append(ce_log, Post(r))
       /\ ce_result' = Raised(IF r.body = "nokey" THEN "KeyError" ELSE "ValueError")
  /\ ce_pc' = "done"
  /\ UNCHANGED <<ce_text, ce_attempt, pvars, dvars, svars, bvars, cvars>>

\* lines 32-38: a RequestException, raised by the request itself, by
\* raise_for_status for a 4xx status, or by json() where the library's
\* decoding error is a RequestException
CeRequestError ==
  /\ ce_pc = "try"
  /\ \E r \in Responses \cup {NoResponse} :
       LET exception ==
             IF r = NoResponse THEN "RequestException"
             ELSE IF RaisesForStatus(r.status) THEN "HTTPError"
             ELSE "JSONDecodeError"
       IN /\ \/ r = NoResponse
             \/ ~Transient(r.status) /\ RaisesForStatus(r.status)
             \/ ~Transient(r.status) /\ ~RaisesForStatus(r.status) /\ r.body = "notjson"
          /\ IF MoreAttempts(ce_attempt)
             THEN /\ ce_log' = ce_log \o <<Post(r), Sleep(Wait(ce_attempt))>>
                  /\ CeContinue
             ELSE /\ ce_log' = Append(ce_log, Post(r))
                  /\ ce_pc' = "done"
                  /\ ce_result' = Raised(exception)
                  /\ UNCHANGED ce_attempt
  /\ UNCHANGED <<ce_text, pvars, dvars, svars, bvars, cvars>>

(***************************************************************************)
(* chunk_document as a function of an arbitrary document.                  *)
(***************************************************************************)
Documents ==
  [url : Urls, title : {Title(u) : u \in Urls}, content : Contents, type : {"html", "pdf"}]

ChunkIdle ==
  /\ cd_pc = "idle"
  /\ cd_document = <<>>
  /\ cd_chunks = <<>>

ChunkCall ==
  /\ cd_pc = "call"
  /\ cd_chunks' = chunk_document(cd_document)
  /\ cd_pc' = "done"
  /\ UNCHANGED <<cd_document, pvars, dvars, svars, bvars, evars>>

(***************************************************************************)
(* Specifications.                                                         *)
(***************************************************************************)
\* Runs of run_pipeline, one after another.
Init == PipelineInit /\ DetectIdle /\ SitemapIdle /\ BfsIdle /\ EmbedIdle /\ ChunkIdle

Next ==
  \/ ValidateFail
  \/ StartRun
  \/ RunAgain
  \/ RunAfterAbort
  \/ Exit
  \/ DeleteStep
  \/ DeleteFail
  \/ EmbedStep
  \/ EmbedFail
  \/ InsertBatch
  \/ InsertFail

Spec == Init /\ [][Next]_vars

\* One call of find_changed_urls on any arguments.
DetectInit ==
  /\ PipelineInit /\ SitemapIdle /\ BfsIdle /\ EmbedIdle /\ ChunkIdle
  /\ fc_pc = "call"
  /\ fc_new_chunks \in SeqsUpTo(DetectChunks, MaxNew)
  /\ fc_existing \in DetectDicts
  /\ fc_result = {}

DetectNext == DetectCall

SpecDetect == DetectInit /\ [][DetectNext]_vars

\* One call of _load_sitemap on any sitemap.
SitemapInit ==
  /\ PipelineInit /\ DetectIdle /\ BfsIdle /\ EmbedIdle /\ ChunkIdle
  /\ sm_pc = "loop"
  /\ sm_entries \in SeqsUpTo(SitemapEntries, MaxEntries)
  /\ sm_i = 0
  /\ sm_page_urls = {}
  /\ sm_pdf_urls = {}

SitemapNext ==
  \/ SmSkip
  \/ SmPdf
  \/ SmPage
  \/ SmReturn

SpecSitemap == SitemapInit /\ [][SitemapNext]_vars

\* One call of _bfs_crawl on any site.
BfsInit ==
  PipelineInit /\ DetectIdle /\ SitemapIdle /\ EmbedIdle /\ ChunkIdle /\ BfsStart

BfsNext ==
  \/ BfsFrontierEmpty
  \/ BfsCapsReached
  \/ BfsSkip
  \/ BfsPdf
  \/ BfsFetchRejected
  \/ BfsFetchPage

SpecBfs == BfsInit /\ [][BfsNext]_vars

\* The crawl is a sequential loop: an iteration that can run does run.
FairSpecBfs == SpecBfs /\ WF_vars(BfsNext)

\* One call of _call_embed against any sequence of responses.
EmbedInit ==
  /\ PipelineInit /\ DetectIdle /\ SitemapIdle /\ BfsIdle /\ ChunkIdle
  /\ ce_pc = "try"
  /\ ce_text \in Texts
  /\ ce_attempt = 0
  /\ ce_log = <<>>
  /\ ce_result = NoResult

EmbedNext ==
  \/ CeTransient
  \/ CeReturn
  \/ CePropagates
  \/ CeRequestError

SpecEmbed == EmbedInit /\ [][EmbedNext]_vars

\* One call of chunk_document on any document.
ChunkInit ==
  /\ PipelineInit /\ DetectIdle /\ SitemapIdle /\ BfsIdle /\ EmbedIdle
  /\ cd_pc = "call"
  /\ cd_document \in Documents
  /\ cd_chunks = <<>>

ChunkNext == ChunkCall

SpecChunk == ChunkInit /\ [][ChunkNext]_vars

(***************************************************************************)
(* Properties of the sync coordinator.                                     *)
(***************************************************************************)
RowsOf(tbl, url) == {r \in tbl : r.url = url}
StoredHashes(tbl, url) == {r.content_hash : r \in RowsOf(tbl, url)}
FreshUrls == {all_chunks[i].url : i \in DOMAIN all_chunks}
FreshHashes(url) ==
  {all_chunks[i].content_hash : i \in {j \in DOMAIN all_chunks : all_chunks[j].url = url}}
FreshCount(url) == Cardinality({j \in DOMAIN all_chunks : all_chunks[j].url = url})
PriorHashes(url) == StoredHashes(table0, url)
Issued(op) == {log[i].url : i \in {j \in DOMAIN log : log[j].op = op}}
Completed == pc = "done" /\ outcome = "ok"

\* C1: after a run that completed, every URL whose fresh fingerprint set
\* differed from the set stored when the run began holds in storage exactly
\* the fresh fingerprint set: no stale hash remains, no fresh hash is missing.
C1_ChangedUrlHoldsFreshSet ==
  Completed =>
    \A u \in FreshUrls :
      FreshHashes(u) # PriorHashes(u) => StoredHashes(table, u) = FreshHashes(u)

\* A completed run has replaced the rows of a URL that had other content.
C1_Witness ==
  /\ Completed
  /\ \E u \in FreshUrls :
       /\ PriorHashes(u) # {}
       /\ PriorHashes(u) \cap FreshHashes(u) = {}
       /\ StoredHashes(table, u) = FreshHashes(u)

\* C2: in every state, also of a run that aborted at any step, the rows of
\* one URL were all written by the same run, and the rows the current run has
\* written for it are rows of its fresh chunks: never a mix of an earlier
\* run's rows and the current run's.
C2_NoMixOfOldAndNew ==
  /\ \A r1, r2 \in table :
       r1.url = r2.url => r1.metadata.updated_at = r2.metadata.updated_at
  /\ pc # "idle" =>
       \A r \in table :
         r.metadata.updated_at = run =>
           \E i \in DOMAIN all_chunks :
             /\ all_chunks[i].url = r.url
             /\ all_chunks[i].chunk_index = r.chunk_index
             /\ all_chunks[i].content_hash = r.content_hash

\* A run aborted while inserting: a URL that had rows of an earlier run
\* holds only some of its new rows.
C2_Witness ==
  /\ pc = "done"
  /\ outcome = "aborted"
  /\ \E u \in FreshUrls :
       /\ RowsOf(table0, u) # {}
       /\ RowsOf(table, u) # {}
       /\ \A r \in RowsOf(table, u) : r.metadata.updated_at = run
       /\ Cardinality(RowsOf(table, u)) < FreshCount(u)

\* C3: a run that follows a completed run with the same discovered URLs and
\* the same extracted content computes an empty processing set and issues no
\* delete, no embedding call and no insert.
C3_SecondRunIsNoOp ==
  repeat =>
    /\ urls_to_process = {}
    /\ Issued("delete") \cup Issued("embed") \cup Issued("insert") = {}
    /\ table = table0
    /\ Completed

\* The repeated run found documents and rows, and only read the table.
C3_Witness ==
  /\ repeat
  /\ Len(documents) = NumUrls
  /\ \E u \in FreshUrls : Cardinality(FreshHashes(u)) > 1
  /\ SelectSeq(log, LAMBDA e : e.op \notin {"crawl", "extract"}) = <<Event("select", 0)>>

\* C5: a URL with fresh chunks that is absent from the prior state is new and
\* never a member of the changed set: changed_urls and new_urls are disjoint.
C5_NewIsNeverChanged == changed_urls \cap new_urls = {}

\* C6: a delete is issued only for URLs that have records in the prior state
\* and whose content changed; none for a URL that is new.
C6_DeleteOnlyForStoredUrls ==
  \A u \in Issued("delete") :
    /\ RowsOf(table0, u) # {}
    /\ FreshHashes(u) # PriorHashes(u)

\* C7: a URL whose fresh fingerprint set equals its stored one gets no
\* delete, no embedding call and no insert, and keeps its rows, whatever
\* else the run processes; an empty processing set means no such call at all.
C7_UnchangedUrlUntouched ==
  /\ \A u \in FreshUrls :
       FreshHashes(u) = PriorHashes(u) =>
         /\ u \notin Issued("delete") \cup Issued("embed") \cup Issued("insert")
         /\ RowsOf(table, u) = RowsOf(table0, u)
  /\ (pc = "done" /\ urls_to_process = {}) =>
       /\ Issued("delete") \cup Issued("embed") \cup Issued("insert") = {}
       /\ table = table0

\* A completed run left one URL alone while it replaced another's rows.
C7_Witness ==
  /\ Completed
  /\ \E u, v \in FreshUrls :
       /\ FreshHashes(u) = PriorHashes(u)
       /\ v \in Issued("delete") \cap Issued("insert")
       /\ RowsOf(table0, v) # {}

(***************************************************************************)
(* Properties of the change detector.                                      *)
(***************************************************************************)
DetectHashes(url) ==
  {fc_new_chunks[i].content_hash :
     i \in {j \in DOMAIN fc_new_chunks : fc_new_chunks[j].url = url}}

\* C4: find_changed_urls returns a URL exactly when the URL has a chunk in
\* new_chunks and the set of its chunks' hashes differs, as a set, from the
\* set existing_hashes holds for it (the empty set if it holds none); a URL
\* that appears only in existing_hashes is never returned.
C4_ChangedExactly ==
  fc_pc = "done" =>
    /\ fc_result \subseteq Urls
    /\ \A u \in Urls :
         u \in fc_result <=>
           /\ \E i \in DOMAIN fc_new_chunks : fc_new_chunks[i].url = u
           /\ DetectHashes(u) #
                (IF u \in DOMAIN fc_existing THEN fc_existing[u] ELSE {})

\* A URL whose chunks repeat a hash and match the stored set is left out,
\* and so is a URL that only the table knows.
C4_Witness ==
  /\ fc_pc = "done"
  /\ \E u \in Urls :
       /\ u \notin fc_result
       /\ Cardinality({j \in DOMAIN fc_new_chunks : fc_new_chunks[j].url = u}) = 3
       /\ Cardinality(DetectHashes(u)) = 2
  /\ \E v \in DOMAIN fc_existing :
       /\ fc_existing[v] # {}
       /\ \A i \in DOMAIN fc_new_chunks : fc_new_chunks[i].url # v

(***************************************************************************)
(* Properties of the discovery engine.                                     *)
(***************************************************************************)
\* A host, lowercased and without one leading "www." label.
StripLeadingWww(netloc) ==
  LET lower == Lower(netloc)
  IN IF StartsWith(lower, WwwDot) THEN SubSeq(lower, Len(WwwDot) + 1, Len(lower)) ELSE lower

\* C8: the crawl never admits, as page or document, a location whose host,
\* lowercased and without one leading "www." label, differs from the seed's
\* host normalised the same way.
C8_OnlySeedAuthority ==
  \A u \in bfs_page_urls \cup bfs_pdf_urls :
    StripLeadingWww(Netloc(u)) = StripLeadingWww(Netloc(Seed))

SmPrefix == SubSeq(sm_entries, 1, sm_i)

\* The locations of the entries of a sitemap that survive the extension
\* filter and are of the document type (pdf) or the page type, in source
\* order.
SmKept(entries, pdf) ==
  LET kept == SelectSeq(entries,
                LAMBDA e : /\ e.text
                           /\ SmExt(SmUrl(e)) \notin skip_extensions
                           /\ SmEndsWithPdf(SmUrl(e)) = pdf)
  IN [i \in DOMAIN kept |-> SmUrl(kept[i])]

FirstOccurrence(seq, u) ==
  CHOOSE i \in DOMAIN seq : seq[i] = u /\ \A j \in 1..(i - 1) : seq[j] # u

\* The locations of seq that fewer than cap distinct locations precede.
FirstDistinct(seq, cap) ==
  {u \in Range(seq) :
     Cardinality({seq[j] : j \in 1..(FirstOccurrence(seq, u) - 1)}) < cap}

\* C9: _load_sitemap returns as page set the first min(MAX_PAGES, n) distinct
\* page-type locations in source order, n being the number of distinct
\* page-type entries that survive the filter, and likewise the document set
\* with MAX_PDFS; at every step the sets are those of the entries read so
\* far, so a later entry never displaces an admitted one.
C9_SitemapCaps ==
  /\ sm_pc \in {"loop", "done"} =>
       /\ sm_page_urls = FirstDistinct(SmKept(SmPrefix, FALSE), MAX_PAGES)
       /\ sm_pdf_urls = FirstDistinct(SmKept(SmPrefix, TRUE), MAX_PDFS)
  /\ sm_pc = "done" =>
       /\ sm_i = Len(sm_entries)
       /\ Cardinality(sm_page_urls) =
            Min(MAX_PAGES, Cardinality(Range(SmKept(sm_entries, FALSE))))
       /\ Cardinality(sm_pdf_urls) =
            Min(MAX_PDFS, Cardinality(Range(SmKept(sm_entries, TRUE))))

\* A sitemap with a repeated page and more distinct pages than the cap.
C9_Witness ==
  /\ sm_pc = "done"
  /\ Cardinality(Range(SmKept(sm_entries, FALSE))) > MAX_PAGES
  /\ Len(SmKept(sm_entries, FALSE)) > Cardinality(Range(SmKept(sm_entries, FALSE)))
  /\ Cardinality(sm_page_urls) = MAX_PAGES

\* C10: _bfs_crawl terminates, and its loop exits exactly when the frontier
\* is empty or both result sets have reached their caps.
C10_BfsTerminates ==
  /\ <>(bfs_pc = "done")
  /\ [](bfs_pc = "done" => (queue = <<>> \/ CapsReached))
  /\ [][(bfs_pc = "loop" /\ (queue = <<>> \/ CapsReached)) => bfs_pc' = "done"]_vars

\* The caps ended a crawl whose frontier still held an unvisited page.
C10_Witness ==
  /\ bfs_pc = "done"
  /\ CapsReached
  /\ \E i \in DOMAIN queue :
       /\ Normalize(queue[i]) \notin visited
       /\ StartsWithHttp(queue[i])
       /\ ~EndsWithPdf(queue[i])

\* An iteration issues the request of line 142.
BfsFetch == BfsFetchRejected \/ BfsFetchPage

\* C11: the politeness delay separates every two successive fetches: no fetch
\* is issued while the crawl's latest fetch has not been followed by a delay,
\* whatever the outcome of that fetch.
C11_DelayBetweenFetches == [][BfsFetch => last_io # "fetch"]_vars

(***************************************************************************)
(* Properties of the embedding call.                                       *)
(***************************************************************************)
\* The requests _call_embed has issued, in order.
Posts == SelectSeq(ce_log, LAMBDA e : e.ev = "post")

\* The attempt ended in a transient server error or a request exception.
AttemptFailed(response) == response = NoResponse \/ Transient(response.status)

EveryAttemptFailed == \A i \in DOMAIN Posts : AttemptFailed(Posts[i].response)

\* C12: _call_embed issues at most 3 requests for one text; if every attempt
\* ends in a transient server error or a request exception it raises, and
\* only after the third attempt; it returns only the embedding that a
\* success response supplied.
C12_ThreeAttemptsThenFatal ==
  /\ Len(Posts) <= 3
  /\ ce_pc = "done" => ce_result.kind \in {"returned", "raised"}
  /\ (ce_pc = "done" /\ EveryAttemptFailed) =>
       ce_result.kind = "raised" /\ Len(Posts) = 3
  /\ ce_result.kind = "returned" =>
       /\ Posts # <<>>
       /\ Posts[Len(Posts)].response = Response(200, "embedding")
       /\ ce_result.value = Embedding(ce_text)

\* Three attempts failed, by exception and by transient status, and the
\* call raised.
C12_Witness ==
  /\ ce_pc = "done"
  /\ Len(Posts) = 3
  /\ EveryAttemptFailed
  /\ \E i \in DOMAIN Posts : Posts[i].response = NoResponse
  /\ Posts[3].response = Response(546, "error")
  /\ ce_result = Raised("RuntimeError")

(***************************************************************************)
(* Properties of the sync coordinator: failures and ordering.             *)
(***************************************************************************)
\* The rows the current run has written.
RowsOfRun == {r \in table : r.metadata.updated_at = run}

\* C13: if the embedding of a chunk fails after its retries, run_pipeline
\* aborts and the run inserts no row for any URL; rows are inserted only by
\* a run that has embedded every chunk it uploads, so no URL receives part
\* of its chunk set because an embedding failed.
C13_EmbedFailureInsertsNothing ==
  /\ Issued("embed_raised") # {} =>
       /\ pc = "done"
       /\ outcome = "aborted"
       /\ Issued("insert") = {}
       /\ RowsOfRun = {}
  /\ (pc # "idle" /\ (Issued("insert") # {} \/ RowsOfRun # {})) =>
       /\ Issued("embed_raised") = {}
       /\ Len(all_embeddings) = Len(chunks_to_upload)

\* The embedding failed after the rows of a stored URL were deleted and
\* after some chunk was embedded.
C13_Witness ==
  /\ Issued("embed_raised") # {}
  /\ outcome = "aborted"
  /\ Len(all_embeddings) >= 1
  /\ \E u \in Issued("delete") : RowsOf(table0, u) # {} /\ RowsOf(table, u) = {}

\* C14: if a required setting (SUPABASE_URL, SUPABASE_SERVICE_KEY or
\* SUPABASE_ANON_KEY) is missing, run_pipeline raises before discovery
\* starts: the run issues no fetch, no storage read, no delete, no embedding
\* call and no insert, and storage is as the run found it.
C14_MissingSettingFailsFast ==
  (pc # "idle" /\ \E k \in Required : ~config[k]) =>
    /\ pc = "done"
    /\ outcome = "aborted"
    /\ log = <<>>
    /\ page_urls = <<>> /\ pdf_urls = <<>> /\ documents = <<>>
    /\ table = table0

\* A run of a process that lacks only the anon key ended at once, with rows
\* in storage.
C14_Witness ==
  /\ pc = "done"
  /\ outcome = "aborted"
  /\ ~config["SUPABASE_ANON_KEY"]
  /\ config["SUPABASE_URL"] /\ config["SUPABASE_SERVICE_KEY"]
  /\ table # {}
  /\ log = <<>>

\* The URLs crawl() handed to the run.
Discovered == Range(page_urls) \cup Range(pdf_urls)

\* The discovered URLs whose extraction returned None.
FailedUrls == Discovered \ {documents[i].url : i \in DOMAIN documents}

\* C15: when the extraction of a discovered URL returns None the run goes on
\* with the other URLs (each is extracted, each document that was returned
\* is kept, the run ends early only in a later phase), the failed URL
\* contributes no chunk, no delete, embedding call or insert is issued for
\* it, and its stored rows are left as they were.
C15_FailedExtractionIsSkipped ==
  (pc # "idle" /\ Missing(config) = {}) =>
    /\ Discovered = Issued("extract")
    /\ \A u \in FailedUrls :
         /\ u \notin FreshUrls
         /\ \A i \in DOMAIN chunks_to_upload : chunks_to_upload[i].url # u
         /\ u \notin Issued("delete") \cup Issued("embed") \cup Issued("insert")
         /\ RowsOf(table, u) = RowsOf(table0, u)
    /\ outcome = "aborted" => urls_to_process # {}

\* A run completed and replaced one URL's rows while the extraction of
\* another URL, which has rows in storage, had failed.
C15_Witness ==
  /\ Completed
  /\ \E u \in FailedUrls : RowsOf(table0, u) # {} /\ RowsOf(table, u) = RowsOf(table0, u)
  /\ \E v \in FreshUrls : v \in Issued("delete") \cap Issued("insert")

(***************************************************************************)
(* Properties of the chunker.                                              *)
(***************************************************************************)
\* C16: chunk_document yields one chunk per piece of the split, whose
\* chunk_index values are 0..n-1 in sequence order, each once and without a
\* gap, and every chunk carries the url, title and type of its document.
C16_ChunkIndicesContiguous ==
  cd_pc = "done" =>
    /\ Len(cd_chunks) = Len(split_text(cd_document.content))
    /\ \A i \in DOMAIN cd_chunks :
         /\ cd_chunks[i].chunk_index = i - 1
         /\ cd_chunks[i].url = cd_document.url
         /\ cd_chunks[i].title = cd_document.title
         /\ cd_chunks[i].type = cd_document.type
    /\ {cd_chunks[i].chunk_index : i \in DOMAIN cd_chunks} = 0..(Len(cd_chunks) - 1)
    /\ \A i, j \in DOMAIN cd_chunks :
         cd_chunks[i].chunk_index = cd_chunks[j].chunk_index => i = j

\* A document whose split repeats a piece: the chunks differ by index only.
C16_Witness ==
  /\ cd_pc = "done"
  /\ Len(cd_chunks) = MaxChunks
  /\ cd_chunks[1].content = cd_chunks[MaxChunks].content
  /\ cd_chunks[MaxChunks].chunk_index = MaxChunks - 1

\* The positions of the log that hold a call of one of the kinds ops.
At(ops) == {i \in DOMAIN log : log[i].op \in ops}

\* C17: within one run every delete precedes the first embedding call and
\* every embedding call precedes the first insert; and for every URL the
\* delete of its old rows has completed before any of its rows is inserted.
C17_DeleteEmbedInsertInOrder ==
  /\ \A i \in At({"delete"}), j \in At({"embed", "embed_raised", "insert"}) : i < j
  /\ \A i \in At({"embed", "embed_raised"}), j \in At({"insert"}) : i < j
  /\ \A j \in At({"insert"}) :
       /\ log[j].url \in urls_to_process
       /\ \E i \in At({"delete"}) : i < j /\ log[i].url = log[j].url
  /\ pc = "upsert" => Issued("delete") = urls_to_process

\* A completed run that deleted, embedded and inserted for two URLs.
C17_Witness ==
  /\ Completed
  /\ Cardinality(Issued("delete")) = 2
  /\ Cardinality(Issued("insert")) = 2
  /\ Cardinality(At({"embed"})) > 2
  /\ \E u \in Issued("delete") : RowsOf(table0, u) # {}

\* The fresh chunks of one URL, in the order chunk_document produced them.
ChunksOf(url) == SelectSeq(all_chunks, LAMBDA c : c.url = url)

\* The row upsert_chunks builds for a chunk, with the embedding of the
\* chunk's own content.
RowFor(chunk) ==
  [url |-> chunk.url, chunk_index |-> chunk.chunk_index, content |-> chunk.content,
   content_hash |-> chunk.content_hash, embedding |-> Embedding(chunk.content),
   metadata |-> [title |-> chunk.title, type |-> chunk.type, updated_at |-> run]]

\* C18: in a successful run upsert_chunks is called exactly once for each
\* URL of the processing set, with all and only that URL's chunks in
\* chunk_index order, and every inserted row carries the embedding computed
\* from its own content.
C18_OneUpsertPerUrlPaired ==
  /\ pc = "upsert" \/ (Completed /\ urls_to_process # {}) =>
       /\ Len(groups) = Cardinality(urls_to_process)
       /\ \A k \in DOMAIN groups :
            LET u == groups[k][1][1].url
            IN /\ u \in urls_to_process
               /\ \A m \in DOMAIN groups : groups[m][1][1].url = u => m = k
               /\ grp_chunks(groups[k]) = ChunksOf(u)
               /\ \A i \in DOMAIN groups[k] :
                    /\ groups[k][i][1].chunk_index = i - 1
                    /\ groups[k][i][2] = Embedding(groups[k][i][1].content)
  /\ \A i, j, k \in At({"insert"}) :
       (i < j /\ j < k /\ log[i].url = log[k].url) => log[j].url = log[i].url
  /\ \A r \in RowsOfRun : r.embedding = Embedding(r.content)
  /\ Completed =>
       \A u \in urls_to_process :
         RowsOf(table, u) = {RowFor(ChunksOf(u)[i]) : i \in DOMAIN ChunksOf(u)}

\* A completed run uploaded two URLs, one of them with chunks of different
\* content.
C18_Witness ==
  /\ Completed
  /\ Cardinality(urls_to_process) = 2
  /\ Len(groups) = 2
  /\ \E u \in urls_to_process :
       /\ Len(ChunksOf(u)) = 2
       /\ ChunksOf(u)[1].content # ChunksOf(u)[2].content
       /\ Cardinality(RowsOf(table, u)) = 2

\* C19: if a run aborted after deleting a URL's rows, the next run that
\* completes with the URL's upstream content unchanged re-processes the URL
\* and leaves in storage exactly one row per fresh chunk of the URL (indices
\* 0..n-1), whatever rows the aborted run left behind.
C19_NextRunRepairsAbortedUrl ==
  Completed =>
    \A u \in recovering :
      /\ u \in urls_to_process
      /\ RowsOf(table, u) = {RowFor(ChunksOf(u)[i]) : i \in DOMAIN ChunksOf(u)}
      /\ Cardinality(RowsOf(table, u)) = Len(ChunksOf(u))

\* The location has the seed's authority, a leading "www." label set aside.
SameAuthority(url) == StripLeadingWww(Netloc(url)) = StripLeadingWww(Netloc(Seed))

\* C20: every fetch of _bfs_crawl is of a location that was not visited
\* before in this run (fragment and trailing slash stripped), that lies
\* inside the seed's domain and that has no .pdf suffix; no location is
\* fetched twice, and document locations are admitted without being fetched.
C20_FetchOnlyNewPagesInDomain ==
  /\ [][BfsFetch =>
          /\ Current \notin visited
          /\ Current \notin fetched
          /\ SameAuthority(Current)
          /\ ~EndsWithPdf(Current)]_vars
  /\ [](bfs_pdf_urls \cap fetched = {})

\* The iteration handles a document location it can admit.
AdmissibleDocument ==
  /\ Iterating
  /\ StartsWithHttp(Current)
  /\ Current \notin visited
  /\ InDomain(Current)
  /\ EndsWithPdf(Current)
  /\ Cardinality(bfs_pdf_urls) < MAX_PDFS

PagesFull == Cardinality(bfs_page_urls) >= MAX_PAGES

\* C21: at every point of _bfs_crawl page_urls holds at most MAX_PAGES URLs
\* and pdf_urls at most MAX_PDFS; once page_urls has reached MAX_PAGES no
\* fetch is issued, while a document location of the frontier is still
\* admitted, and the crawl does not stop over a non-empty frontier, until
\* the document cap is reached.
C21_CapsHoldAndDocumentsGoOn ==
  /\ [](Cardinality(bfs_page_urls) <= MAX_PAGES /\ Cardinality(bfs_pdf_urls) <= MAX_PDFS)
  /\ [][PagesFull => fetched' = fetched /\ bfs_page_urls' = bfs_page_urls]_vars
  /\ [][BfsFetch => ~PagesFull]_vars
  /\ [][(PagesFull /\ AdmissibleDocument) =>
          /\ bfs_pdf_urls' = bfs_pdf_urls \cup {Current}
          /\ bfs_pc' = "loop"]_vars
  /\ []((bfs_pc = "done" /\ Cardinality(bfs_pdf_urls) < MAX_PDFS) => queue = <<>>)

\* The page set is full, the document set is not, and the iteration is about
\* to handle a document location it has not seen.
C21_Witness ==
  /\ PagesFull
  /\ Cardinality(fetched) >= MAX_PAGES
  /\ bfs_pdf_urls = {}
  /\ AdmissibleDocument

\* A client-error response.
ClientError(response) == 400 <= response.status /\ response.status < 500

\* C22: _call_embed makes a further attempt only after a transient server
\* error response (status 546 or >= 500); a client-error response (4xx) ends
\* the call at once: it raises, with no wait and no request after it.
C22_ClientErrorFailsAtOnce ==
  /\ \A i \in 1..(Len(Posts) - 1) :
       Posts[i].response # NoResponse /\ Transient(Posts[i].response.status)
  /\ \A i \in DOMAIN ce_log :
       (ce_log[i].ev = "post" /\ ClientError(ce_log[i].response)) =>
         /\ i = Len(ce_log)
         /\ ce_pc = "done"
         /\ ce_result.kind = "raised"

\* C23: after any sequence of runs, each completing or aborting at any step,
\* storage never holds two rows with the same (url, chunk_index): every
\* insert for a URL follows, in its run, a delete of all the URL's rows, or
\* the URL had no rows, and the rows a run writes for a URL never stand
\* beside rows of an earlier run.
C23_NoDuplicateUrlIndex ==
  /\ \A r1, r2 \in table :
       (r1.url = r2.url /\ r1.chunk_index = r2.chunk_index) => r1 = r2
  /\ \A j \in At({"insert"}) :
       \/ \E i \in At({"delete"}) : i < j /\ log[i].url = log[j].url
       \/ RowsOf(table0, log[j].url) = {}
  /\ \A u \in Issued("insert") : RowsOf(table, u) \subseteq RowsOfRun

\* A run aborted while inserting a URL's rows; the next run found the rows
\* it left, deleted them and inserted the URL's full chunk set.
C23_Witness ==
  /\ Completed
  /\ \E u \in recovering :
       /\ RowsOf(table0, u) # {}
       /\ u \in Issued("delete") \cap Issued("insert")
       /\ Cardinality(RowsOf(table, u)) = MaxChunks
       /\ {r.chunk_index : r \in RowsOf(table, u)} = 0..(MaxChunks - 1)

====
